---- MODULE Spec2Model ----
(***************************************************************************)
(* GCalJSON: the /events handler, fetchEvents, transformEvent, the query   *)
(* window, the go-cache store behind eventCache, and the startup and       *)
(* shutdown of main (src/main.go).                                         *)
(* Time is counted in whole seconds since the Unix epoch, in UTC.          *)
(***************************************************************************)
EXTENDS Integers, Sequences, FiniteSets, TLC

\* ------------------------------------------------------------------ bounds
NumProcs == 2
MaxRequests == 3
MaxTicks == 2

\* ------------------------------------------------------- program constants
StatusOK == 200
StatusInternalServerError == 500
TestDuration == 300
DefaultExpiration == 0
ShutdownTimeout == 5
cacheKey == "events"
NilErr == "<nil>"

Procs == 1..NumProcs

\* --------------------------------------------------------------- time.Time
SecondsPerDay == 86400

isLeap(year) == year % 4 = 0 /\ (year % 100 # 0 \/ year % 400 = 0)

\* days in the non-leap year before month m (index m-1 of Go's daysBefore)
daysBefore(m) ==
    CASE m = 1 -> 0   [] m = 2 -> 31  [] m = 3 -> 59  [] m = 4 -> 90
      [] m = 5 -> 120 [] m = 6 -> 151 [] m = 7 -> 181 [] m = 8 -> 212
      [] m = 9 -> 243 [] m = 10 -> 273 [] m = 11 -> 304 [] m = 12 -> 334
      [] m = 13 -> 365

\* days from 1970-01-01 to January 1 of year
daysSinceEpoch(year) ==
    LET leaps(y) == ((y - 1) \div 4) - ((y - 1) \div 100) + ((y - 1) \div 400)
    IN  365 * (year - 1970) + leaps(year) - leaps(1970)

\* time.Date(year, month, day, hour, min, sec, 0, UTC) as Unix seconds; the
\* month is normalised into 1..12, overflowing into the year.
Date(year, month, day, hour, min, sec) ==
    LET m0 == month - 1
        y  == year + (m0 \div 12)
        m  == (m0 % 12) + 1
        d  == daysSinceEpoch(y) + daysBefore(m)
                + (IF isLeap(y) /\ m >= 3 THEN 1 ELSE 0) + (day - 1)
    IN  d * SecondsPerDay + hour * 3600 + min * 60 + sec

YearRange == 2022..2026

\* the year that holds day number days (days since 1970-01-01)
yearOf(days) ==
    CHOOSE y \in YearRange :
        daysSinceEpoch(y) <= days /\ days < daysSinceEpoch(y + 1)

monthStart(y, m) == daysBefore(m) + (IF isLeap(y) /\ m >= 3 THEN 1 ELSE 0)

\* the month of year y that holds day yd of the year (0-based)
monthOf(y, yd) ==
    CHOOSE m \in 1..12 : monthStart(y, m) <= yd /\ yd < monthStart(y, m + 1)

\* t.Date(): year, month and day of a Unix time
civil(t) ==
    LET days == t \div SecondsPerDay
        y == yearOf(days)
        yd == days - daysSinceEpoch(y)
        m == monthOf(y, yd)
    IN  [year |-> y, month |-> m, day |-> yd - monthStart(y, m) + 1]

Year(t) == civil(t).year
Month(t) == civil(t).month
Day(t) == civil(t).day

\* t.Format(time.RFC3339) in UTC: "YYYY-MM-DDThh:mm:ssZ", kept as its fields
Format(t) ==
    LET c == civil(t)
    IN  [year |-> c.year, month |-> c.month, day |-> c.day,
         hour |-> (t % SecondsPerDay) \div 3600,
         min  |-> ((t % SecondsPerDay) % 3600) \div 60,
         sec  |-> t % 60,
         zone |-> "Z"]

\* the query window of fetchEvents for nowTime
prevMonth(nowTime) == IF Month(nowTime) = 1 THEN 12 ELSE Month(nowTime) - 1
prevYear(nowTime) == IF Month(nowTime) = 1 THEN Year(nowTime) - 1 ELSE Year(nowTime)
tMinTime(nowTime) == Date(prevYear(nowTime), prevMonth(nowTime), 1, 0, 0, 0)
\* tMaxBase taken one month instead of two months ahead
tMaxBase_m(nowTime) == Date(Year(nowTime), Month(nowTime) + 1, 1, 0, 0, 0)

tMaxBase(nowTime) == Date(Year(nowTime), Month(nowTime) + 2, 1, 0, 0, 0)
tMaxTime(nowTime) == tMaxBase(nowTime) - 1
Window(nowTime) ==
    [timeMin |-> Format(tMinTime(nowTime)), timeMax |-> Format(tMaxTime(nowTime))]

\* ------------------------------------------------------------ data model
\* a []Event value: the nil slice is distinct from an empty, non-nil one
NilSlice == [isNil |-> TRUE, elems |-> <<>>]
append(s, e) == [isNil |-> FALSE, elems |-> Append(s.elems, e)]

\* *calendar.EventDateTime: a nil pointer, or the two string fields
NilDateTime == [isNil |-> TRUE, DateTime |-> "", Date |-> ""]
EventDateTime(dt, d) == [isNil |-> FALSE, DateTime |-> dt, Date |-> d]

Event(title, start, end, description, location) ==
    [Title |-> title, Start |-> start, End |-> end,
     Description |-> description, Location |-> location]

ZeroEvent == Event("", "", "", "", "")

\* transformEvent with end falling back to the start date
transformEvent_m(item) ==
    IF item.Start.isNil \/ item.End.isNil
    THEN [panic |-> TRUE, ev |-> ZeroEvent]
    ELSE LET start == IF item.Start.DateTime = "" THEN item.Start.Date
                      ELSE item.Start.DateTime
             end   == IF item.End.DateTime = "" THEN item.Start.Date
                      ELSE item.End.DateTime
         IN  [panic |-> FALSE,
              ev |-> Event(item.Summary, start, end, item.Description, item.Location)]

\* transformEvent: reading a field through a nil Start or End pointer panics
transformEvent(item) ==
    IF item.Start.isNil \/ item.End.isNil
    THEN [panic |-> TRUE, ev |-> ZeroEvent]
    ELSE LET start == IF item.Start.DateTime = "" THEN item.Start.Date
                      ELSE item.Start.DateTime
             end   == IF item.End.DateTime = "" THEN item.End.Date
                      ELSE item.End.DateTime
         IN  [panic |-> FALSE,
              ev |-> Event(item.Summary, start, end, item.Description, item.Location)]

\* the loop of fetchEvents over eventsResult.Items, from `var res []Event`
RECURSIVE transformAll(_, _)
transformAll(res, rest) ==
    IF rest = <<>> THEN [panic |-> FALSE, res |-> res]
    ELSE LET t == transformEvent(Head(rest))
         IN  IF t.panic THEN [panic |-> TRUE, res |-> res]
             ELSE transformAll(append(res, t.ev), Tail(rest))

\* --------------------------------------------------------- encoding/json
\* a JSON object is the sequence of its <<key, value>> members
omitempty(key, value) == IF value = "" THEN <<>> ELSE << <<key, value>> >>

EncodeEvent(e) ==
    << <<"title", e.Title>>, <<"start", e.Start>>, <<"end", e.End>> >>
        \o omitempty("description", e.Description)
        \o omitempty("location", e.Location)

\* json.NewEncoder(w).Encode(events): a nil slice encodes as null
EncodeEvents(events) ==
    IF events.isNil THEN [kind |-> "null", elems |-> <<>>]
    ELSE [kind |-> "array",
          elems |-> [i \in 1..Len(events.elems) |-> EncodeEvent(events.elems[i])]]

\* json.NewEncoder(w).Encode(map[string]string{"error": message})
EncodeError(message) ==
    [kind |-> "object", elems |-> << <<"error", message>> >>]

\* --------------------------------------------------- http.ResponseWriter
\* status 0: no header written yet; writes: the documents passed to Write
NewRecorder ==
    [wroteHeader |-> FALSE, status |-> 0, contentType |-> "", writes |-> <<>>]

HeaderSet(w, value) ==
    IF w.wroteHeader THEN w ELSE [w EXCEPT !.contentType = value]

WriteHeader(w, code) ==
    IF w.wroteHeader THEN w
    ELSE [w EXCEPT !.wroteHeader = TRUE, !.status = code]

Write(w, doc) ==
    [WriteHeader(w, StatusOK) EXCEPT !.writes = Append(@, doc)]

\* errorResponse that puts the error detail into the body
errorResponse_m(w, code, message, err) ==
    Write(WriteHeader(HeaderSet(w, "application/json"), code),
          [kind |-> "object", elems |-> << <<"error", message>>, <<"detail", err>> >>])

\* errorResponse: the response it leaves in w, and the line it logs
errorResponse(w, code, message, err) ==
    Write(WriteHeader(HeaderSet(w, "application/json"), code), EncodeError(message))

errorLog(message, err) == <<"Error", message, err>>

\* a handler that answers a failed fetch with 200 and whatever list it has
getEventsHandler_m(events, err, writeErr) ==
    LET w1 == Write(HeaderSet(NewRecorder, "application/json"),
                    EncodeEvents(events))
    IN  IF writeErr # NilErr
        THEN [w |-> errorResponse(w1, StatusInternalServerError,
                                  "Failed to encode response", writeErr),
              logged |-> << errorLog("Failed to encode response", writeErr) >>]
        ELSE [w |-> w1, logged |-> <<>>]

\* the handler after fetchEvents returned (events, err); writeErr is the
\* error (NilErr for none) that writing the encoded list to the client gives
getEventsHandler(events, err, writeErr) ==
    IF err # NilErr
    THEN [w |-> errorResponse(NewRecorder, StatusInternalServerError,
                              "Failed to fetch events", err),
          logged |-> << errorLog("Failed to fetch events", err) >>]
    ELSE LET w1 == Write(HeaderSet(NewRecorder, "application/json"),
                         EncodeEvents(events))
         IN  IF writeErr # NilErr
             THEN [w |-> errorResponse(w1, StatusInternalServerError,
                                       "Failed to encode response", writeErr),
                   logged |-> << errorLog("Failed to encode response", writeErr) >>]
             ELSE [w |-> w1, logged |-> <<>>]

\* -------------------------------------------------------------- go-cache
\* cache.New(de, ci): a zero default expiration means "never expires"
cacheNew(de) == IF de = 0 THEN -1 ELSE de

\* Set that appends to the list already stored instead of replacing it
cacheSet_m(m, k, x, d, de, t) ==
    LET d1 == IF d = DefaultExpiration THEN de ELSE d
        e  == IF d1 > 0 THEN t + d1 ELSE 0
        old == IF k \in DOMAIN m THEN m[k].Object.elems ELSE <<>>
    IN  [j \in DOMAIN m \cup {k} |->
            IF j = k
            THEN [Object |-> [isNil |-> x.isNil, elems |-> old \o x.elems],
                  Expiration |-> e]
            ELSE m[j]]

\* c.Set(k, x, d) at time t; Expiration 0 marks an item that never expires
cacheSet(m, k, x, d, de, t) ==
    LET d1 == IF d = DefaultExpiration THEN de ELSE d
        e  == IF d1 > 0 THEN t + d1 ELSE 0
    IN  [j \in DOMAIN m \cup {k} |->
            IF j = k THEN [Object |-> x, Expiration |-> e] ELSE m[j]]

Expired(item, t) == item.Expiration > 0 /\ t > item.Expiration

\* Get that treats an item as expired one second early
cacheGet_m(m, k, t) ==
    IF k \notin DOMAIN m THEN [found |-> FALSE, Object |-> NilSlice]
    ELSE IF m[k].Expiration > 0 /\ t >= m[k].Expiration
         THEN [found |-> FALSE, Object |-> NilSlice]
    ELSE [found |-> TRUE, Object |-> m[k].Object]

\* c.Get(k) at time t
cacheGet(m, k, t) ==
    IF k \notin DOMAIN m THEN [found |-> FALSE, Object |-> NilSlice]
    ELSE IF Expired(m[k], t) THEN [found |-> FALSE, Object |-> NilSlice]
    ELSE [found |-> TRUE, Object |-> m[k].Object]

\* DeleteExpired that drops every item, expired or not
DeleteExpired_m(m, t) == [j \in {} |-> m[j]]

\* c.DeleteExpired() at time t, run by the janitor
DeleteExpired(m, t) ==
    [j \in {k \in DOMAIN m : ~Expired(m[k], t)} |-> m[j]]

\* ------------------------------------------------------ upstream inputs
itTimed ==
    [Summary |-> "Standup", Description |-> "Daily", Location |-> "",
     Start |-> EventDateTime("2024-05-01T09:00:00Z", ""),
     End |-> EventDateTime("2024-05-01T09:30:00Z", "")]

itAllDay ==
    [Summary |-> "Holiday", Description |-> "", Location |-> "Home",
     Start |-> EventDateTime("", "2024-05-06"),
     End |-> EventDateTime("", "2024-05-07")]

itNoStart ==
    [Summary |-> "Broken", Description |-> "", Location |-> "",
     Start |-> NilDateTime,
     End |-> EventDateTime("2024-05-08T10:00:00Z", "")]

\* eventsResult.Items of a successful Events.List(...).Do()
UpstreamLists ==
    { <<>>, <<itTimed>>, <<itAllDay, itTimed>>, <<itTimed, itNoStart>> }

\* the err of a failed Events.List(...).Do()
UpstreamErrors == {"googleapi: Error 403: quotaExceeded", "dial tcp: i/o timeout"}

\* the err of a failed write of the encoded list to the client
WriteErrors == {"write tcp: broken pipe"}

\* GCALJSON_CACHE_DURATION values that time.ParseDuration accepts, in seconds
CacheDurations == {0, 1}

\* time.Now() when the process starts
StartTimes == {Date(2024, 12, 31, 23, 59, 58)}

\* testEvents of TestGetEventsHandler
testEvents ==
    append(NilSlice,
           Event("Dummy Event", "2023-03-01T09:00:00Z", "2023-03-01T10:00:00Z", "", ""))

\* ------------------------------------------------------------------ state
VARIABLES
    now,            \* the wall clock, Unix seconds
    ticks,          \* seconds elapsed since the process started
    cacheDuration,  \* the parsed GCALJSON_CACHE_DURATION
    defaultExpiration, \* eventCache's default expiration
    janitorNext,    \* when the cache's janitor ticks next (0: no janitor)
    srvNil,         \* TRUE when the handler was built with a nil service
    items,          \* eventCache's map: key -> [Object, Expiration]
    req,            \* per goroutine: the request it is serving
    last,           \* the request that finished most recently
    reqCount,       \* requests accepted so far
    upstreamCalls,  \* Events.List(...).Do() calls made so far
    sets,           \* every list that was passed to eventCache.Set
    lastSet,        \* the list and time of the latest eventCache.Set
    okExp,          \* latest Expiration of an entry that a fetch which
                    \* returned a list read or wrote (-1: none, 0: never expires)
    callTime,       \* latest start of a finished fetch that called the
                    \* upstream (-1: none)
    probe,          \* input and result of a single call of a pure function
    main            \* the process: where main() is, its locals, the listener

vars == <<now, ticks, cacheDuration, defaultExpiration, janitorNext, srvNil,
          items, req, last, reqCount, upstreamCalls, sets, lastSet, okExp,
          callTime, probe, main>>

serverVars == <<now, ticks, cacheDuration, defaultExpiration, janitorNext,
                srvNil, items, req, last, reqCount, upstreamCalls, sets,
                lastSet, okExp, callTime, main>>

\* timeMin and timeMax before fetchEvents computed them
NoTime == [year |-> 0, month |-> 0, day |-> 0, hour |-> 0, min |-> 0, sec |-> 0,
           zone |-> ""]
NoWindow == [timeMin |-> NoTime, timeMax |-> NoTime]

\* a goroutine that serves no request.  exp is the Expiration of the cache
\* entry its fetch read or wrote (-1: none).  priorOk: a fetch that had
\* finished when this one began returned a list from an entry that is still
\* unexpired.  priorCalls: a fetch that had finished when this one began, and
\* had begun at most cacheDuration earlier, called the upstream.  priorFail:
\* the fetch that had finished last when this one began had failed.
IdleReq ==
    [pc |-> "idle", proc |-> 0, getTime |-> 0, hit |-> FALSE, exp |-> -1,
     calls |-> 0, nowTime |-> 0, window |-> NoWindow,
     upstream |-> <<>>, events |-> NilSlice, err |-> NilErr,
     w |-> NewRecorder, logged |-> <<>>,
     priorCalls |-> 0, priorOk |-> FALSE, priorFail |-> FALSE]

NoSet == [any |-> FALSE, list |-> NilSlice, time |-> 0]

NoProbe == [kind |-> "none"]

\* -------------------------------------------------- time.ParseDuration
\* strings are sequences of one-character strings
Digits == <<"0", "1", "2", "3", "4", "5", "6", "7", "8", "9">>

isDigit(c) == \E i \in 1..10 : Digits[i] = c

digitValue(c) == (CHOOSE i \in 1..10 : Digits[i] = c) - 1

\* seconds in a unit of unitMap; 0: unknown unit.  Units below the second
\* are not among the inputs.
unitSeconds(u) ==
    CASE u = <<"s">> -> 1
      [] u = <<"m">> -> 60
      [] u = <<"h">> -> 3600
      [] OTHER -> 0

RECURSIVE leadingDigits(_)
\* length of the longest prefix of s made of digits
leadingDigits(s) ==
    IF s = <<>> \/ ~isDigit(Head(s)) THEN 0 ELSE 1 + leadingDigits(Tail(s))

RECURSIVE leadingUnit(_)
\* length of the longest prefix of s without a digit
leadingUnit(s) ==
    IF s = <<>> \/ isDigit(Head(s)) THEN 0 ELSE 1 + leadingUnit(Tail(s))

RECURSIVE intValue(_, _)
intValue(s, acc) ==
    IF s = <<>> THEN acc ELSE intValue(Tail(s), 10 * acc + digitValue(Head(s)))

RECURSIVE parseComponents(_, _)
\* the loop of ParseDuration over ([0-9]+[a-z]+)+, summing into acc
parseComponents(s, acc) ==
    IF s = <<>> THEN [ok |-> TRUE, d |-> acc]
    ELSE LET n == leadingDigits(s)
             rest == SubSeq(s, n + 1, Len(s))
             u == leadingUnit(rest)
             unit == SubSeq(rest, 1, u)
         IN  IF n = 0 \/ u = 0 \/ unitSeconds(unit) = 0
             THEN [ok |-> FALSE, d |-> 0]
             ELSE parseComponents(SubSeq(rest, u + 1, Len(rest)),
                                  acc + intValue(SubSeq(s, 1, n), 0)
                                        * unitSeconds(unit))

\* time.ParseDuration(s): [ok, d] with d in seconds
ParseDuration(s) ==
    LET signed == s # <<>> /\ Head(s) \in {"-", "+"}
        body == IF signed THEN Tail(s) ELSE s
        r == parseComponents(body, 0)
    IN  IF body = <<"0">> THEN [ok |-> TRUE, d |-> 0]
        ELSE IF body = <<>> THEN [ok |-> FALSE, d |-> 0]
        ELSE IF r.ok /\ Head(s) = "-" THEN [ok |-> TRUE, d |-> 0 - r.d]
        ELSE r

\* ------------------------------------- base64.StdEncoding.DecodeString
B64Alphabet ==
    <<"A", "B", "C", "D", "E", "F", "G", "H", "I", "J", "K", "L", "M",
      "N", "O", "P", "Q", "R", "S", "T", "U", "V", "W", "X", "Y", "Z",
      "a", "b", "c", "d", "e", "f", "g", "h", "i", "j", "k", "l", "m",
      "n", "o", "p", "q", "r", "s", "t", "u", "v", "w", "x", "y", "z",
      "0", "1", "2", "3", "4", "5", "6", "7", "8", "9", "+", "/">>

isB64(c) == \E i \in 1..64 : B64Alphabet[i] = c

b64Value(c) == (CHOOSE i \in 1..64 : B64Alphabet[i] = c) - 1

\* a quantum of four characters is well formed; padding only ends the input
validQuantum(q, isLast) ==
    /\ isB64(q[1]) /\ isB64(q[2])
    /\ isB64(q[3]) \/ (isLast /\ q[3] = "=" /\ q[4] = "=")
    /\ isB64(q[4]) \/ (isLast /\ q[4] = "=")

\* the one to three bytes a well-formed quantum encodes
decodeQuantum(q) ==
    LET pads == IF q[4] # "=" THEN 0 ELSE IF q[3] # "=" THEN 1 ELSE 2
        v(i) == IF q[i] = "=" THEN 0 ELSE b64Value(q[i])
        n == v(1) * 262144 + v(2) * 4096 + v(3) * 64 + v(4)
    IN  SubSeq(<<n \div 65536, (n \div 256) % 256, n % 256>>, 1, 3 - pads)

RECURSIVE DecodeString(_)
\* base64.StdEncoding.DecodeString(s): [ok, bytes]
DecodeString(s) ==
    IF s = <<>> THEN [ok |-> TRUE, bytes |-> <<>>]
    ELSE IF Len(s) < 4 THEN [ok |-> FALSE, bytes |-> <<>>]
    ELSE LET q == SubSeq(s, 1, 4)
             rest == SubSeq(s, 5, Len(s))
             r == DecodeString(rest)
         IN  IF validQuantum(q, rest = <<>>) /\ r.ok
             THEN [ok |-> TRUE, bytes |-> decodeQuantum(q) \o r.bytes]
             ELSE [ok |-> FALSE, bytes |-> <<>>]

\* ------------------------------------------------- the process environment
\* GCALJSON_GOOGLE_CREDENTIAL: unset, "e30=" (base64 of {}), "e30" (bad
\* length), "{}" (raw JSON, not base64)
EnvCredentials ==
    { <<>>, <<"e", "3", "0", "=">>, <<"e", "3", "0">>, <<"{", "}">> }

\* GCALJSON_GOOGLE_CALENDAR_ID
EnvCalendarIDs == {"", "primary"}

\* GCALJSON_CACHE_DURATION: unset, "5m", "0h5m", "-0", "0", "10", "5x"
EnvDurations ==
    { <<>>, <<"5", "m">>, <<"0", "h", "5", "m">>, <<"-", "0">>, <<"0">>,
      <<"1", "0">>, <<"5", "x">> }

\* main() about to read its environment.  exit -1: the process is alive.
\* listen: "none", "started" (the goroutine of ListenAndServe is spawned),
\* "listening", "closed".  okEnv, okDuration, okDecode, okService: what the
\* startup step found ("?": not reached).  cacheNews, services: how often
\* cache.New ran and calendar.NewService gave a client.
BootMain(cred, cal, dur) ==
    [pc |-> "getenv", encodedCred |-> cred, calendarID |-> cal,
     cacheDurationStr |-> dur, credJSON |-> <<>>, listen |-> "none",
     exit |-> -1, fatal |-> "", signalled |-> FALSE, deadline |-> 0,
     cacheNews |-> 0, services |-> 0,
     okEnv |-> "?", okDuration |-> "?", okDecode |-> "?", okService |-> "?"]

\* main() blocked in <-quit with the listener accepting requests
ServingMain ==
    [pc |-> "quit", encodedCred |-> <<>>, calendarID |-> "primary",
     cacheDurationStr |-> <<>>, credJSON |-> <<>>, listen |-> "listening",
     exit |-> -1, fatal |-> "", signalled |-> FALSE, deadline |-> 0,
     cacheNews |-> 1, services |-> 1,
     okEnv |-> "yes", okDuration |-> "yes", okDecode |-> "yes",
     okService |-> "yes"]

\* TestGetEventsHandler: no main(), the test builds the cache and the handler
NoMain ==
    [pc |-> "none", encodedCred |-> <<>>, calendarID |-> "dummyCalendarID",
     cacheDurationStr |-> <<>>, credJSON |-> <<>>, listen |-> "none",
     exit |-> -1, fatal |-> "", signalled |-> FALSE, deadline |-> 0,
     cacheNews |-> 1, services |-> 0,
     okEnv |-> "?", okDuration |-> "?", okDecode |-> "?", okService |-> "?"]

\* main(): cache.New(cacheDuration, 2*cacheDuration), a non-nil service
MainInit ==
    /\ cacheDuration \in CacheDurations
    /\ defaultExpiration = cacheNew(cacheDuration)
    /\ janitorNext = IF 2 * cacheDuration > 0 THEN now + 2 * cacheDuration ELSE 0
    /\ srvNil = FALSE
    /\ items = <<>>
    /\ sets = {}
    /\ lastSet = NoSet
    /\ main = ServingMain

\* TestGetEventsHandler: cache.New(5m, 10m), one list set, a nil service
TestInit ==
    /\ cacheDuration = TestDuration
    /\ defaultExpiration = cacheNew(TestDuration)
    /\ janitorNext = now + 2 * TestDuration
    /\ srvNil = TRUE
    /\ items = cacheSet(<<>>, cacheKey, testEvents, DefaultExpiration,
                        cacheNew(TestDuration), now)
    /\ sets = {testEvents}
    /\ lastSet = [any |-> TRUE, list |-> testEvents, time |-> now]
    /\ main = NoMain

Init ==
    /\ now \in StartTimes
    /\ ticks = 0
    /\ MainInit \/ TestInit
    /\ req = [p \in Procs |-> IdleReq]
    /\ last = IdleReq
    /\ reqCount = 0
    /\ upstreamCalls = 0
    /\ okExp = -1
    /\ callTime = -1
    /\ probe = NoProbe

\* the later of two Expirations, 0 (never) being the latest
LaterExp(a, b) == IF a = 0 \/ b = 0 THEN 0 ELSE IF a >= b THEN a ELSE b

Max(a, b) == IF a >= b THEN a ELSE b

\* request r of goroutine p finishes: the goroutine is free again
Finish(p, r) ==
    /\ req' = [req EXCEPT ![p] = IdleReq]
    /\ last' = [r EXCEPT !.proc = p]
    /\ okExp' = IF r.pc = "done" /\ r.err = NilErr THEN LaterExp(okExp, r.exp)
                ELSE okExp
    /\ callTime' = IF r.calls = 1 THEN Max(callTime, r.getTime) ELSE callTime

\* ---------------------------------------------------------------- actions
\* a single-flight handler: a request that misses while another request's
\* upstream call is outstanding shares that call instead of making its own
HandlerGet_m(p) ==
    /\ req[p].pc = "idle"
    /\ \A q \in Procs : q < p => req[q].pc # "idle"
    /\ reqCount < MaxRequests
    /\ reqCount' = reqCount + 1
    /\ LET g == cacheGet(items, cacheKey, now)
           r0 == [IdleReq EXCEPT
                    !.proc = p,
                    !.getTime = now,
                    !.priorOk = okExp = 0 \/ (okExp > 0 /\ now <= okExp),
                    !.priorCalls =
                        IF callTime >= 0 /\ now - callTime <= cacheDuration
                        THEN 1 ELSE 0,
                    !.priorFail = last.pc = "done" /\ last.err # NilErr]
           r2 == [r0 EXCEPT !.nowTime = now, !.window = Window(now)]
       IN  IF g.found
           THEN \E writeErr \in WriteErrors \cup {NilErr} :
                  LET h == getEventsHandler(g.Object, NilErr, writeErr)
                  IN  /\ Finish(p, [r0 EXCEPT !.pc = "done", !.hit = TRUE,
                                       !.exp = items[cacheKey].Expiration,
                                       !.events = g.Object,
                                       !.w = h.w, !.logged = h.logged])
                      /\ upstreamCalls' = upstreamCalls
           ELSE IF srvNil
           THEN /\ Finish(p, [r2 EXCEPT !.pc = "panicked"])
                /\ upstreamCalls' = upstreamCalls
           ELSE LET own == IF \E q \in Procs : req[q].pc = "waiting"
                           THEN 0 ELSE 1
                IN  /\ req' = [req EXCEPT ![p] = [r2 EXCEPT !.pc = "waiting",
                                                            !.calls = @ + own]]
                    /\ upstreamCalls' = upstreamCalls + own
                    /\ UNCHANGED <<last, okExp, callTime>>
    /\ UNCHANGED <<now, ticks, cacheDuration, defaultExpiration, janitorNext,
                   srvNil, items, sets, lastSet, probe, main>>

\* a request arrives: fetchEvents reads the cache.  On a hit it returns the
\* cached list and the handler writes the response.  On a miss it reads the
\* clock, computes the window and starts Events.List(...).Do(), which
\* panics with a nil service.  The server gives the request to a free
\* goroutine; which one is immaterial, so the first free one takes it.
HandlerGet(p) ==
    /\ req[p].pc = "idle"
    /\ \A q \in Procs : q < p => req[q].pc # "idle"
    /\ reqCount < MaxRequests
    /\ reqCount' = reqCount + 1
    /\ LET g == cacheGet(items, cacheKey, now)
           r0 == [IdleReq EXCEPT
                    !.proc = p,
                    !.getTime = now,
                    !.priorOk = okExp = 0 \/ (okExp > 0 /\ now <= okExp),
                    !.priorCalls =
                        IF callTime >= 0 /\ now - callTime <= cacheDuration
                        THEN 1 ELSE 0,
                    !.priorFail = last.pc = "done" /\ last.err # NilErr]
           r2 == [r0 EXCEPT !.nowTime = now, !.window = Window(now)]
       IN  IF g.found
           THEN \E writeErr \in WriteErrors \cup {NilErr} :
                  LET h == getEventsHandler(g.Object, NilErr, writeErr)
                  IN  /\ Finish(p, [r0 EXCEPT !.pc = "done", !.hit = TRUE,
                                       !.exp = items[cacheKey].Expiration,
                                       !.events = g.Object,
                                       !.w = h.w, !.logged = h.logged])
                      /\ upstreamCalls' = upstreamCalls
           ELSE IF srvNil
           THEN /\ Finish(p, [r2 EXCEPT !.pc = "panicked"])
                /\ upstreamCalls' = upstreamCalls
           ELSE /\ req' = [req EXCEPT ![p] = [r2 EXCEPT !.pc = "waiting",
                                                        !.calls = @ + 1]]
                /\ upstreamCalls' = upstreamCalls + 1
                /\ UNCHANGED <<last, okExp, callTime>>
    /\ UNCHANGED <<now, ticks, cacheDuration, defaultExpiration, janitorNext,
                   srvNil, items, sets, lastSet, probe, main>>

\* a failed Do() that caches an empty list before returning the error
UpstreamFail_m(p, err) ==
    LET h == getEventsHandler(NilSlice, err, NilErr)
    IN  /\ Finish(p, [req[p] EXCEPT !.pc = "done", !.err = err,
                                    !.w = h.w, !.logged = h.logged])
        /\ items' = cacheSet(items, cacheKey, NilSlice, DefaultExpiration,
                             defaultExpiration, now)
        /\ UNCHANGED <<sets, lastSet>>

\* Do() failed with err: fetchEvents returns (nil, err), the handler
\* answers with errorResponse
UpstreamFail(p, err) ==
    LET h == getEventsHandler(NilSlice, err, NilErr)
    IN  /\ Finish(p, [req[p] EXCEPT !.pc = "done", !.err = err,
                                    !.w = h.w, !.logged = h.logged])
        /\ UNCHANGED <<items, sets, lastSet>>

\* Do() returned list: fetchEvents transforms every item, sets the cache
\* and returns the list, the handler writes it
UpstreamOk(p, list, writeErr) ==
    LET t == transformAll(NilSlice, list)
    IN  IF t.panic
        THEN /\ Finish(p, [req[p] EXCEPT !.pc = "panicked", !.upstream = list])
             /\ UNCHANGED <<items, sets, lastSet>>
        ELSE LET m == cacheSet(items, cacheKey, t.res, DefaultExpiration,
                               defaultExpiration, now)
                 h == getEventsHandler(t.res, NilErr, writeErr)
             IN  /\ items' = m
                 /\ sets' = sets \cup {t.res}
                 /\ lastSet' = [any |-> TRUE, list |-> t.res, time |-> now]
                 /\ Finish(p, [req[p] EXCEPT !.pc = "done", !.upstream = list,
                                             !.events = t.res,
                                             !.exp = m[cacheKey].Expiration,
                                             !.w = h.w, !.logged = h.logged])

\* Events.List(...).Do() returns to the waiting goroutine
UpstreamReturn(p) ==
    /\ req[p].pc = "waiting"
    /\ \/ \E err \in UpstreamErrors : UpstreamFail(p, err)
       \/ \E list \in UpstreamLists, writeErr \in WriteErrors \cup {NilErr} :
             UpstreamOk(p, list, writeErr)
    /\ UNCHANGED <<now, ticks, cacheDuration, defaultExpiration, janitorNext,
                   srvNil, reqCount, upstreamCalls, probe, main>>

\* the janitor goroutine of the cache ticks every 2*cacheDuration
Janitor ==
    /\ janitorNext > 0
    /\ now >= janitorNext
    /\ items' = DeleteExpired(items, now)
    /\ janitorNext' = janitorNext + 2 * cacheDuration
    /\ UNCHANGED <<now, ticks, cacheDuration, defaultExpiration, srvNil, req,
                   last, reqCount, upstreamCalls, sets, lastSet, okExp,
                   callTime, probe, main>>

\* a second passes
Tick ==
    /\ ticks < MaxTicks
    /\ now' = now + 1
    /\ ticks' = ticks + 1
    /\ UNCHANGED <<cacheDuration, defaultExpiration, janitorNext, srvNil,
                   items, req, last, reqCount, upstreamCalls, sets, lastSet,
                   okExp, callTime, probe, main>>

Next ==
    \/ \E p \in Procs : HandlerGet(p)
    \/ \E p \in Procs : UpstreamReturn(p)
    \/ Janitor
    \/ Tick

Spec == Init /\ [][Next]_vars

\* ------------------------------------------- single calls of pure functions
ProbeStrings(v) == {"", v}

\* *calendar.EventDateTime values, nil included
ProbeDateTimes(dt, d) ==
    {NilDateTime} \cup
    {EventDateTime(x, y) : x \in ProbeStrings(dt), y \in ProbeStrings(d)}

\* *calendar.Event inputs of transformEvent
ProbeItems ==
    [Summary : ProbeStrings("Test Event"),
     Description : ProbeStrings("Test Description"),
     Location : ProbeStrings("Test Location"),
     Start : ProbeDateTimes("2023-02-23T10:00:00Z", "2023-02-24"),
     End : ProbeDateTimes("2023-02-23T11:00:00Z", "2023-02-25")]

ProbeYears == {2023, 2024}

\* time.Now() inputs of the window: the first second, the middle and the
\* last second of every month
ProbeTimes ==
    UNION {{[year |-> y, month |-> m, t |-> Date(y, m, 1, 0, 0, 0)],
            [year |-> y, month |-> m, t |-> Date(y, m, 15, 0, 0, 0)],
            [year |-> y, month |-> m, t |-> Date(y, m, 15, 12, 30, 30)],
            [year |-> y, month |-> m, t |-> Date(y, m + 1, 1, 0, 0, 0) - 1]} :
           y \in ProbeYears, m \in 1..12}

ProbeCodes == {400, 404, 500, 503}
ProbeMessages == {"", "Test error", "Failed to fetch events"}
ProbeErrs == UpstreamErrors \cup {NilErr}

\* (events, err) results of fetchEvents given to the handler
ProbeFetches ==
    {[events |-> transformAll(NilSlice, l).res, err |-> NilErr] :
        l \in {<<>>, <<itTimed>>, <<itAllDay, itTimed>>}}
    \cup {[events |-> NilSlice, err |-> e] : e \in UpstreamErrors}

ProbeInputs ==
    {[kind |-> "transformEvent", done |-> FALSE, item |-> i] : i \in ProbeItems}
    \cup {[kind |-> "window", done |-> FALSE, year |-> t.year, month |-> t.month,
           nowTime |-> t.t] : t \in ProbeTimes}
    \cup {[kind |-> "errorResponse", done |-> FALSE, code |-> c, message |-> m,
           err |-> e] : c \in ProbeCodes, m \in ProbeMessages, e \in ProbeErrs}
    \cup {[kind |-> "getEventsHandler", done |-> FALSE, events |-> f.events,
           err |-> f.err, writeErr |-> we] :
           f \in ProbeFetches, we \in WriteErrors \cup {NilErr}}

PureInit ==
    /\ now \in StartTimes
    /\ ticks = 0
    /\ cacheDuration = 0
    /\ MainInit
    /\ req = [p \in Procs |-> IdleReq]
    /\ last = IdleReq
    /\ reqCount = 0
    /\ upstreamCalls = 0
    /\ okExp = -1
    /\ callTime = -1
    /\ probe \in ProbeInputs

ProbeTransformEvent ==
    /\ probe.kind = "transformEvent" /\ ~probe.done
    /\ probe' = [kind |-> "transformEvent", done |-> TRUE, item |-> probe.item,
                 out |-> transformEvent(probe.item)]
    /\ UNCHANGED serverVars

ProbeWindow ==
    /\ probe.kind = "window" /\ ~probe.done
    /\ probe' = [kind |-> "window", done |-> TRUE, year |-> probe.year,
                 month |-> probe.month, nowTime |-> probe.nowTime,
                 out |-> Window(probe.nowTime)]
    /\ UNCHANGED serverVars

ProbeErrorResponse ==
    /\ probe.kind = "errorResponse" /\ ~probe.done
    /\ probe' = [kind |-> "errorResponse", done |-> TRUE, code |-> probe.code,
                 message |-> probe.message, err |-> probe.err,
                 out |-> errorResponse(NewRecorder, probe.code, probe.message,
                                       probe.err),
                 logged |-> errorLog(probe.message, probe.err)]
    /\ UNCHANGED serverVars

ProbeGetEventsHandler ==
    /\ probe.kind = "getEventsHandler" /\ ~probe.done
    /\ probe' = [kind |-> "getEventsHandler", done |-> TRUE,
                 events |-> probe.events, err |-> probe.err,
                 writeErr |-> probe.writeErr,
                 out |-> getEventsHandler(probe.events, probe.err, probe.writeErr)]
    /\ UNCHANGED serverVars

PureNext ==
    \/ ProbeTransformEvent
    \/ ProbeWindow
    \/ ProbeErrorResponse
    \/ ProbeGetEventsHandler

PureSpec == PureInit /\ [][PureNext]_vars

\* ------------------------------------------- the process: main(), signals
cacheVars == <<cacheDuration, defaultExpiration, janitorNext>>

requestVars == <<items, req, last, reqCount, upstreamCalls, sets, lastSet,
                 okExp, callTime, probe>>

InFlight == {p \in Procs : req[p].pc = "waiting"}

\* log.Fatal / log.Fatalf: the process exits with status 1.  The two
\* messages that the source gives in Japanese are rendered in English.
Fatal(m, message) == [m EXCEPT !.pc = "exited", !.exit = 1, !.fatal = message]

ProcessInit ==
    /\ now \in StartTimes
    /\ ticks = 0
    /\ cacheDuration = 0
    /\ defaultExpiration = 0
    /\ janitorNext = 0
    /\ srvNil = TRUE
    /\ items = <<>>
    /\ sets = {}
    /\ lastSet = NoSet
    /\ req = [p \in Procs |-> IdleReq]
    /\ last = IdleReq
    /\ reqCount = 0
    /\ upstreamCalls = 0
    /\ okExp = -1
    /\ callTime = -1
    /\ probe = NoProbe
    /\ main \in {BootMain(cred, cal, dur) :
                   cred \in EnvCredentials, cal \in EnvCalendarIDs,
                   dur \in EnvDurations}

\* a startup that goes on when either of the two settings is present
CheckEnv_m ==
    /\ main.pc = "getenv"
    /\ LET m == [main EXCEPT !.okEnv = IF main.encodedCred # <<>>
                                          /\ main.calendarID # ""
                                       THEN "yes" ELSE "no"]
       IN  main' =
             IF main.encodedCred = <<>> /\ main.calendarID = ""
             THEN Fatal(m, "credential and calendar id must be set")
             ELSE [m EXCEPT !.pc = "parse",
                            !.cacheDurationStr =
                               IF @ = <<>> THEN <<"5", "m">> ELSE @]
    /\ UNCHANGED <<now, ticks, cacheVars, srvNil, requestVars>>

\* main reads the three settings, stops when the credential or the calendar
\* id is empty, and defaults the cache duration to "5m"
CheckEnv ==
    /\ main.pc = "getenv"
    /\ LET m == [main EXCEPT !.okEnv = IF main.encodedCred # <<>>
                                          /\ main.calendarID # ""
                                       THEN "yes" ELSE "no"]
       IN  main' =
             IF main.encodedCred = <<>> \/ main.calendarID = ""
             THEN Fatal(m, "credential and calendar id must be set")
             ELSE [m EXCEPT !.pc = "parse",
                            !.cacheDurationStr =
                               IF @ = <<>> THEN <<"5", "m">> ELSE @]
    /\ UNCHANGED <<now, ticks, cacheVars, srvNil, requestVars>>

\* main parses the cache duration and builds eventCache with it
ParseCacheDuration ==
    /\ main.pc = "parse"
    /\ LET r == ParseDuration(main.cacheDurationStr)
       IN  IF ~r.ok
           THEN /\ main' = Fatal([main EXCEPT !.okDuration = "no"],
                                 "Invalid GCALJSON_CACHE_DURATION")
                /\ UNCHANGED cacheVars
           ELSE /\ cacheDuration' = r.d
                /\ defaultExpiration' = cacheNew(r.d)
                /\ janitorNext' = IF 2 * r.d > 0 THEN now + 2 * r.d ELSE 0
                /\ main' = [main EXCEPT !.pc = "decode", !.okDuration = "yes",
                                        !.cacheDurationStr = <<>>,
                                        !.cacheNews = @ + 1]
    /\ UNCHANGED <<now, ticks, srvNil, requestVars>>

\* main decodes the credential
DecodeCredential ==
    /\ main.pc = "decode"
    /\ LET r == DecodeString(main.encodedCred)
       IN  main' =
             IF ~r.ok
             THEN Fatal([main EXCEPT !.okDecode = "no"],
                        "Failed to decode credentials")
             ELSE [main EXCEPT !.pc = "service", !.okDecode = "yes",
                               !.encodedCred = <<>>, !.credJSON = r.bytes]
    /\ UNCHANGED <<now, ticks, cacheVars, srvNil, requestVars>>

\* calendar.NewService gives a client or an error
NewService ==
    /\ main.pc = "service"
    /\ \E ok \in BOOLEAN :
          IF ~ok
          THEN /\ main' = Fatal([main EXCEPT !.okService = "no"],
                                "Failed to create Calendar service")
               /\ UNCHANGED srvNil
          ELSE /\ srvNil' = FALSE
               /\ main' = [main EXCEPT !.pc = "serve", !.okService = "yes",
                                       !.credJSON = <<>>, !.services = @ + 1]
    /\ UNCHANGED <<now, ticks, cacheVars, requestVars>>

\* main registers the handler, spawns the goroutine of ListenAndServe,
\* asks for SIGINT and SIGTERM and blocks in <-quit
StartServer ==
    /\ main.pc = "serve"
    /\ main' = [main EXCEPT !.pc = "quit", !.listen = "started"]
    /\ UNCHANGED <<now, ticks, cacheVars, srvNil, requestVars>>

\* the goroutine: ListenAndServe binds :8080 or fails, which is fatal
ListenAndServe ==
    /\ main.exit = -1
    /\ main.listen = "started"
    /\ \E ok \in BOOLEAN :
          main' = IF ok THEN [main EXCEPT !.listen = "listening"]
                  ELSE Fatal(main, "Server error")
    /\ UNCHANGED <<now, ticks, cacheVars, srvNil, requestVars>>

\* the listener hands a request to the handler
Accept(p) ==
    /\ main.exit = -1
    /\ main.listen = "listening"
    /\ HandlerGet(p)

\* the upstream call of a request in flight returns
Complete(p) ==
    /\ main.exit = -1
    /\ UpstreamReturn(p)

\* SIGINT or SIGTERM.  Before signal.Notify the signal ends the process;
\* after it main leaves <-quit and calls server.Shutdown with a context of
\* ShutdownTimeout seconds, which closes the listener.
Signal ==
    /\ main.exit = -1
    /\ ~main.signalled
    /\ main' = IF main.pc = "quit"
               THEN [main EXCEPT !.pc = "shutdown", !.signalled = TRUE,
                                 !.deadline = now + ShutdownTimeout,
                                 !.listen = "closed"]
               ELSE [main EXCEPT !.pc = "exited", !.signalled = TRUE,
                                 !.exit = 2]
    /\ UNCHANGED <<now, ticks, cacheVars, srvNil, requestVars>>

\* a second passes while server.Shutdown waits
ShutdownTick ==
    /\ main.pc = "shutdown"
    /\ now < main.deadline
    /\ now' = now + 1
    /\ ticks' = ticks + 1
    /\ UNCHANGED <<cacheVars, srvNil, requestVars, main>>

\* server.Shutdown finds no request in flight and returns nil: main logs
\* "Server exiting" and returns
ShutdownReturn ==
    /\ main.pc = "shutdown"
    /\ InFlight = {}
    /\ main' = [main EXCEPT !.pc = "exited", !.exit = 0]
    /\ UNCHANGED <<now, ticks, cacheVars, srvNil, requestVars>>

\* a Shutdown that never gives up on the requests in flight
ShutdownDeadline_m ==
    /\ main.pc = "shutdown"
    /\ now >= main.deadline
    /\ InFlight = {}
    /\ main' = Fatal(main, "Server forced to shutdown")
    /\ UNCHANGED <<now, ticks, cacheVars, srvNil, requestVars>>

\* the context of server.Shutdown is done: it returns the context's error
\* and main ends the process with log.Fatalf
ShutdownDeadline ==
    /\ main.pc = "shutdown"
    /\ now >= main.deadline
    /\ main' = Fatal(main, "Server forced to shutdown")
    /\ UNCHANGED <<now, ticks, cacheVars, srvNil, requestVars>>

ProcessNext ==
    \/ CheckEnv
    \/ ParseCacheDuration
    \/ DecodeCredential
    \/ NewService
    \/ StartServer
    \/ ListenAndServe
    \/ \E p \in Procs : Accept(p)
    \/ \E p \in Procs : Complete(p)
    \/ Signal
    \/ ShutdownTick
    \/ ShutdownReturn
    \/ ShutdownDeadline

ProcessSpec == ProcessInit /\ [][ProcessNext]_vars

\* the Go runtime schedules the main goroutine and fires the timer of the
\* shutdown context; nothing obliges a signal, a request or the upstream
ProcessFairSpec ==
    /\ ProcessInit
    /\ [][ProcessNext]_vars
    /\ WF_vars(ShutdownTick)
    /\ WF_vars(ShutdownReturn)
    /\ WF_vars(ShutdownDeadline)

\* ================================================================== claims
JSONType == "application/json"

\* the item under "events" has not expired at the current time
Unexpired ==
    /\ cacheKey \in DOMAIN items
    /\ items[cacheKey].Expiration = 0 \/ now <= items[cacheKey].Expiration

\* C1: whenever the cache holds an unexpired entry under "events", a request
\* gets exactly the stored list from fetchEvents without any upstream call
\* (nil service included) and the handler answers 200 with that list.
C1_CacheHitBypassesUpstream ==
    [][\A p \in Procs :
         (HandlerGet(p) /\ Unexpired) =>
            /\ last'.proc = p
            /\ last'.pc = "done"
            /\ last'.events = items[cacheKey].Object
            /\ last'.err = NilErr
            /\ last'.calls = 0
            /\ upstreamCalls' = upstreamCalls
            /\ last'.w.status = StatusOK
            /\ Head(last'.w.writes) = EncodeEvents(items[cacheKey].Object)]_vars

\* a request served with testEvents from the cache by a nil service
C1_Witness ==
    /\ srvNil
    /\ last.pc = "done" /\ last.hit
    /\ last.events = testEvents
    /\ last.w.status = StatusOK
    /\ upstreamCalls = 0

\* C2: when the upstream call of a cache-miss fetch fails, fetchEvents
\* returns the error with no list, makes no further upstream call and does
\* not write the cache: content and expiry are as before.
C2_FailedFetchLeavesCache ==
    [][\A p \in Procs :
         (/\ req[p].pc = "waiting" /\ req'[p].pc = "idle"
          /\ last'.pc = "done" /\ last'.err # NilErr) =>
            /\ last'.proc = p
            /\ last'.events = NilSlice
            /\ last'.calls = 1
            /\ upstreamCalls' = upstreamCalls
            /\ items' = items
            /\ sets' = sets]_vars

\* a fetch failed while the cache held another request's list
C2_Witness ==
    /\ last.pc = "done" /\ last.err # NilErr /\ last.calls = 1
    /\ cacheKey \in DOMAIN items
    /\ now > last.getTime

FetchFailedResponse ==
    [wroteHeader |-> TRUE, status |-> 500, contentType |-> JSONType,
     writes |-> << [kind |-> "object",
                    elems |-> << <<"error", "Failed to fetch events">> >>] >>]

\* C3: whenever fetchEvents fails the handler answers 500 with the body
\* {"error":"Failed to fetch events"}, the same for every upstream error,
\* whose detail is only logged; and errorResponse(w, code, message, err)
\* writes status code and body {"error": message} for any message and err.
C3_ErrorResponseFixed ==
    /\ (probe.kind = "getEventsHandler" /\ probe.done /\ probe.err # NilErr) =>
          /\ probe.out.w = FetchFailedResponse
          /\ probe.out.logged = << <<"Error", "Failed to fetch events", probe.err>> >>
    /\ (probe.kind = "errorResponse" /\ probe.done) =>
          /\ probe.out.status = probe.code
          /\ probe.out.contentType = JSONType
          /\ probe.out.writes =
                << [kind |-> "object", elems |-> << <<"error", probe.message>> >>] >>

\* the handler has answered a fetch that failed with a network error
C3_Witness ==
    /\ probe.kind = "getEventsHandler" /\ probe.done
    /\ probe.err = "dial tcp: i/o timeout"
    /\ probe.out.w.status = StatusInternalServerError

\* the members an Event must be encoded with
ExpectedObject(e) ==
    [title |-> TRUE, start |-> TRUE, end |-> TRUE,
     description |-> e.Description # "", location |-> e.Location # ""]

HasKey(obj, key) == \E i \in 1..Len(obj) : obj[i][1] = key

ValueOf(obj, key) == obj[CHOOSE i \in 1..Len(obj) : obj[i][1] = key][2]

ObjectMatches(obj, e) ==
    /\ HasKey(obj, "title") /\ ValueOf(obj, "title") = e.Title
    /\ HasKey(obj, "start") /\ ValueOf(obj, "start") = e.Start
    /\ HasKey(obj, "end") /\ ValueOf(obj, "end") = e.End
    /\ HasKey(obj, "description") <=> ExpectedObject(e).description
    /\ HasKey(obj, "location") <=> ExpectedObject(e).location

\* C4: every successful fetch, one with zero upstream items included, on
\* the miss and on later hits, is answered 200 with a JSON array holding one
\* object per event in order, with title, start and end always and
\* description / location exactly when non-empty.
C4_BodyIsArrayOfEvents ==
    (last.pc = "done" /\ last.err = NilErr) =>
       /\ last.w.status = StatusOK
       /\ Head(last.w.writes).kind = "array"
       /\ Len(Head(last.w.writes).elems) = Len(last.events.elems)
       /\ \A i \in 1..Len(last.events.elems) :
             ObjectMatches(Head(last.w.writes).elems[i], last.events.elems[i])

\* C5: after the cache is set to a list at time t, a get within the
\* configured duration of t returns exactly that list and a get after the
\* duration has elapsed signals absence, whether or not the janitor ran.
C5_GetWithinDurationElseAbsent ==
    lastSet.any =>
       LET g == cacheGet(items, cacheKey, now)
       IN  IF now - lastSet.time <= cacheDuration
           THEN g.found /\ g.Object = lastSet.list
           ELSE ~g.found

C7_TransformEventFields ==
    (/\ probe.kind = "transformEvent" /\ probe.done
     /\ ~probe.item.Start.isNil /\ ~probe.item.End.isNil) =>
        LET i == probe.item
            e == probe.out.ev
        IN  /\ ~probe.out.panic
            /\ i.Start.DateTime # "" => e.Start = i.Start.DateTime
            /\ i.Start.DateTime = "" => e.Start = i.Start.Date
            /\ i.End.DateTime # "" => e.End = i.End.DateTime
            /\ i.End.DateTime = "" => e.End = i.End.Date
            /\ e.Title = i.Summary
            /\ e.Description = i.Description
            /\ e.Location = i.Location

\* an all-day event whose end date differs from its start date was transformed
C7_Witness ==
    /\ probe.kind = "transformEvent" /\ probe.done
    /\ ~probe.item.Start.isNil /\ ~probe.item.End.isNil
    /\ probe.item.Start.DateTime = "" /\ probe.item.End.DateTime = ""
    /\ probe.out.ev.Start = "2023-02-24" /\ probe.out.ev.End = "2023-02-25"

\* C8: the core never panics on upstream data: a fetch whose upstream result
\* holds a record without start or end still completes with a list or an
\* error handled by the request handler.
C8_NoPanicOnUpstreamData ==
    last.calls = 1 => last.pc # "panicked"

DaysIn(year, month) ==
    IF month = 2 THEN (IF isLeap(year) THEN 29 ELSE 28)
    ELSE IF month \in {4, 6, 9, 11} THEN 30 ELSE 31

Stamp(year, month, day, hour, min, sec) ==
    [year |-> year, month |-> month, day |-> day, hour |-> hour, min |-> min,
     sec |-> sec, zone |-> "Z"]

\* C9: for every current time, timeMin is day 1, 00:00:00 of the previous
\* month and timeMax the last second of the next month, so that
\* timeMin <= now <= timeMax; 2024-03-15 gives 2024-02-01T00:00:00 and
\* 2024-04-30T23:59:59.
C9_WindowPrevToNextMonth ==
    (probe.kind = "window" /\ probe.done) =>
        LET y == probe.year
            m == probe.month
            py == IF m = 1 THEN y - 1 ELSE y
            pm == IF m = 1 THEN 12 ELSE m - 1
            ny == IF m = 12 THEN y + 1 ELSE y
            nm == IF m = 12 THEN 1 ELSE m + 1
            lo == probe.out.timeMin
            hi == probe.out.timeMax
        IN  /\ lo = Stamp(py, pm, 1, 0, 0, 0)
            /\ hi = Stamp(ny, nm, DaysIn(ny, nm), 23, 59, 59)
            /\ Date(lo.year, lo.month, lo.day, lo.hour, lo.min, lo.sec) <= probe.nowTime
            /\ probe.nowTime <= Date(hi.year, hi.month, hi.day, hi.hour, hi.min, hi.sec)
            /\ probe.nowTime = Date(2024, 3, 15, 0, 0, 0) =>
                  /\ lo = Stamp(2024, 2, 1, 0, 0, 0)
                  /\ hi = Stamp(2024, 4, 30, 23, 59, 59)

\* the window of a time in December of a leap year's eve: it ends on the
\* 29th of February
C9_Witness ==
    /\ probe.kind = "window" /\ probe.done
    /\ probe.year = 2023 /\ probe.month = 12
    /\ probe.out.timeMin = Stamp(2023, 11, 1, 0, 0, 0)
    /\ probe.out.timeMax = Stamp(2024, 1, 31, 23, 59, 59)

\* C10: under any interleaving the cache holds at most one entry, under the
\* key "events", and every read of it gives absence or one whole list that
\* was passed to an earlier Set, never a mixture of two lists.
C10_CacheNeverCorrupted ==
    /\ Cardinality(DOMAIN items) <= 1
    /\ DOMAIN items \subseteq {cacheKey}
    /\ \A k \in DOMAIN items : items[k].Object \in sets
    /\ cacheGet(items, cacheKey, now).found =>
          cacheGet(items, cacheKey, now).Object \in sets
    /\ last.hit => last.events \in sets

\* two requests that ran concurrently stored different non-empty lists and a
\* third one read the cache
C10_Witness ==
    /\ \E l1, l2 \in sets : l1 # l2 /\ ~l1.isNil /\ ~l2.isNil
    /\ last.pc = "done" /\ last.hit /\ ~last.events.isNil
    /\ reqCount = 3

\* C11: there is no single-flight on the miss path.  Every request that
\* misses, whatever other requests are waiting for, makes its own upstream
\* call in the same step and leaves the other requests as they are, so that
\* the upstream calls are as many as the misses; every fetch that returns
\* its own upstream result has overwritten the cache with it; and the list
\* the cache holds is always the one of the last Set to execute.
C11_NoSingleFlight ==
    [][/\ \A p \in Procs :
            /\ (HandlerGet(p) /\ ~Unexpired /\ ~srvNil) =>
                  /\ req'[p].pc = "waiting" /\ req'[p].calls = 1
                  /\ upstreamCalls' = upstreamCalls + 1
                  /\ \A q \in Procs \ {p} : req'[q] = req[q]
            /\ (/\ req[p].pc = "waiting" /\ req'[p].pc = "idle"
                /\ last'.pc = "done" /\ last'.err = NilErr) =>
                  /\ cacheKey \in DOMAIN items'
                  /\ items'[cacheKey].Object = last'.events
                  /\ lastSet' = [any |-> TRUE, list |-> last'.events,
                                 time |-> now]
       /\ upstreamCalls' <= reqCount'
       /\ Cardinality({p \in Procs : req'[p].pc = "waiting"}) <= upstreamCalls'
       /\ (lastSet'.any /\ cacheKey \in DOMAIN items') =>
             items'[cacheKey].Object = lastSet'.list]_vars

\* two requests missed the empty cache in the same second, each made its
\* own upstream call, they stored different lists, and the cache holds the
\* list of the one that set last
C11_Witness ==
    /\ ~srvNil /\ ticks = 0
    /\ \A p \in Procs : req[p].pc = "idle"
    /\ upstreamCalls = 2
    /\ Cardinality(sets) = 2
    /\ last.pc = "done" /\ last.calls = 1 /\ last.err = NilErr
    /\ items[cacheKey].Object = last.events
    /\ lastSet.list = last.events

\* C12: a cache-miss fetch whose upstream call succeeds with items
\* i_1..i_n makes that one upstream call and one cache write, and the list
\* it stores is the list it returns: n elements, the k-th being
\* transformEvent(i_k).
C12_MissStoresTransformedList ==
    [][\A p \in Procs :
         (/\ req[p].pc = "waiting" /\ req'[p].pc = "idle"
          /\ last'.proc = p /\ last'.err = NilErr) =>
            /\ last'.pc = "done"
            /\ last'.calls = 1
            /\ upstreamCalls' = upstreamCalls
            /\ cacheKey \in DOMAIN items'
            /\ items'[cacheKey].Object = last'.events
            /\ lastSet' = [any |-> TRUE, list |-> last'.events, time |-> now]
            /\ Len(last'.events.elems) = Len(last'.upstream)
            /\ \A k \in 1..Len(last'.upstream) :
                  last'.events.elems[k] = transformEvent(last'.upstream[k]).ev]_vars

\* the handler's answer to a fetch that failed with err
ErrorAnswer(r) ==
    /\ r.events = NilSlice
    /\ r.w = FetchFailedResponse

\* C13 as stated: stale data is never served on error and failures are not
\* cached.  A fetch that found the entry expired or absent and whose
\* upstream call fails is answered 500 with the error body and no list, and
\* leaves the cache as it was; the next fetch after a failed one calls the
\* upstream again and, if that call succeeds, returns its result and caches
\* it.
C13_NextFetchCallsUpstream ==
    [][\A p \in Procs :
         /\ (/\ req[p].pc = "waiting" /\ req'[p].pc = "idle"
             /\ last'.proc = p /\ last'.err # NilErr) =>
               /\ ErrorAnswer(last')
               /\ items' = items
         /\ (HandlerGet(p) /\ last.pc = "done" /\ last.err # NilErr) =>
               /\ req'[p].pc = "waiting"
               /\ upstreamCalls' = upstreamCalls + 1
         /\ (/\ req[p].pc = "waiting" /\ req'[p].pc = "idle"
             /\ last'.proc = p /\ req[p].priorFail /\ last'.err = NilErr) =>
               /\ last'.pc = "done"
               /\ last'.events = transformAll(NilSlice, last'.upstream).res
               /\ cacheKey \in DOMAIN items'
               /\ items'[cacheKey].Object = last'.events]_vars

\* C13 as amended: a fetch whose upstream call fails is answered 500 with
\* the error body and no list, and leaves the cache as it was.  The next
\* fetch after a failed one calls the upstream again when the cache then
\* holds no unexpired entry (a request that ran alongside the failed one
\* may have stored one, and then the fetch is a hit); when its call gives a
\* list whose items all have start and end it returns that list
\* transformed and caches it, and otherwise it panics and leaves the cache.
C13_NoStaleNoCachedFailure ==
    [][\A p \in Procs :
         /\ (/\ req[p].pc = "waiting" /\ req'[p].pc = "idle"
             /\ last'.proc = p /\ last'.err # NilErr) =>
               /\ ErrorAnswer(last')
               /\ items' = items
         /\ (HandlerGet(p) /\ last.pc = "done" /\ last.err # NilErr
                /\ ~Unexpired /\ ~srvNil) =>
               /\ req'[p].pc = "waiting"
               /\ upstreamCalls' = upstreamCalls + 1
         /\ (/\ req[p].pc = "waiting" /\ req'[p].pc = "idle"
             /\ last'.proc = p /\ req[p].priorFail /\ last'.err = NilErr) =>
               IF transformAll(NilSlice, last'.upstream).panic
               THEN last'.pc = "panicked" /\ items' = items
               ELSE /\ last'.pc = "done"
                    /\ last'.events = transformAll(NilSlice, last'.upstream).res
                    /\ last'.w.status = StatusOK
                    /\ cacheKey \in DOMAIN items'
                    /\ items'[cacheKey].Object = last'.events]_vars

\* a fetch read an entry that had expired a second before, its upstream
\* call failed, and it was answered 500 while the expired list is still in
\* the map
C13_Witness ==
    /\ last.pc = "done" /\ last.err # NilErr
    /\ last.w.status = StatusInternalServerError
    /\ cacheKey \in DOMAIN items
    /\ Expired(items[cacheKey], last.getTime)

\* after a failed fetch the next one called the upstream again and stored
\* what it got
C13_WitnessRetry ==
    /\ last.pc = "done" /\ last.priorFail /\ last.calls = 1
    /\ last.err = NilErr
    /\ items[cacheKey].Object = last.events
    /\ ~last.events.isNil

\* C14: for every cache duration that startup accepts, zero and negative
\* ones included, each cache write stores the list with expiry = time of the
\* write + the configured duration and replaces whatever entry was there,
\* so that the entry is no longer returned once that expiry has passed.
C14_ExpiryIsWriteTimePlusDuration ==
    [][/\ \A p \in Procs :
            (/\ req[p].pc = "waiting" /\ req'[p].pc = "idle"
             /\ last'.proc = p /\ last'.pc = "done" /\ last'.err = NilErr) =>
               items' = [k \in {cacheKey} |->
                           [Object |-> last'.events,
                            Expiration |-> now + cacheDuration]]
       /\ (lastSet'.any /\ now' > lastSet'.time + cacheDuration) =>
             ~cacheGet(items', cacheKey, now').found]_vars

\* the step is the success path of goroutine p's fetchEvents
SuccessPath(p) ==
    /\ req[p].pc = "waiting" /\ req'[p].pc = "idle"
    /\ last'.proc = p /\ last'.pc = "done" /\ last'.err = NilErr

\* C15: a cache hit leaves the cache unchanged, list and expiry (no sliding
\* expiration), so that an entry becomes absent one cache duration after
\* the last cache write however many requests hit it in between; and the
\* cache is only ever written by the success path of fetchEvents (the
\* janitor only removes entries that have expired).
C15_HitLeavesCache ==
    [][/\ \A p \in Procs : (HandlerGet(p) /\ Unexpired) => items' = items
       /\ (lastSet'.any /\ now' > lastSet'.time + cacheDuration) =>
             ~cacheGet(items', cacheKey, now').found
       /\ items' # items =>
             \/ \E p \in Procs : SuccessPath(p)
             \/ items' = DeleteExpired(items, now)]_vars

\* C16: under any interleaving, every list that fetchEvents returns is the
\* complete normalized result of one successful upstream call: its own on
\* a miss, and on a hit the one of the request that last wrote the cache,
\* written at most one cache duration earlier; what is stored is always
\* such a complete result, and a fetch that fails or breaks off stores and
\* returns nothing.
C16_OnlyCompleteResults ==
    [][\A p \in Procs :
         /\ (HandlerGet(p) /\ Unexpired) =>
               /\ lastSet.any
               /\ last'.events = lastSet.list
               /\ now - lastSet.time <= cacheDuration
         /\ SuccessPath(p) =>
               /\ ~transformAll(NilSlice, last'.upstream).panic
               /\ last'.events = transformAll(NilSlice, last'.upstream).res
               /\ Len(last'.events.elems) = Len(last'.upstream)
               /\ items'[cacheKey].Object = last'.events
         /\ (/\ req[p].pc = "waiting" /\ req'[p].pc = "idle"
             /\ ~SuccessPath(p)) =>
               /\ last'.events = NilSlice
               /\ items' = items]_vars

\* encoding the list of request r failed
EncodeFailed(r) ==
    r.logged # <<>> /\ r.logged[1][2] = "Failed to encode response"

\* C17: every invocation of the handler whose upstream call returns (or
\* that needs none) produces exactly one response, with status 200 or 500
\* and JSON content type; the status is 500 exactly when fetchEvents
\* returned an error or encoding the list failed; and the response is a
\* function of the list and error of the request's own fetch.
C17_OneResponse200Or500 ==
    [][\A p \in Procs :
         (/\ req'[p].pc = "idle"
          /\ req[p].pc = "waiting" \/ HandlerGet(p)) =>
            /\ last'.proc = p
            /\ last'.w.wroteHeader
            /\ Len(last'.w.writes) = 1
            /\ last'.w.status \in {StatusOK, StatusInternalServerError}
            /\ last'.w.contentType = JSONType
            /\ last'.w.status = StatusInternalServerError <=>
                  (last'.err # NilErr \/ EncodeFailed(last'))
            /\ \E writeErr \in WriteErrors \cup {NilErr} :
                  last'.w = getEventsHandler(last'.events, last'.err, writeErr).w]_vars

\* C18: after SIGINT or SIGTERM the server accepts no new request; main
\* waits in server.Shutdown for the requests in flight, for at most the
\* ShutdownTimeout seconds that start with the signal; it exits with status
\* 0 as soon as none is in flight and with the fatal status at the
\* deadline otherwise, the requests still running being abandoned (nothing
\* happens after the exit); so the process always eventually exits after a
\* signal.
C18_GracefulShutdown ==
    /\ [][/\ main.signalled => reqCount' = reqCount
          /\ (Signal /\ main.pc = "quit") =>
                /\ main'.pc = "shutdown"
                /\ main'.listen = "closed"
                /\ main'.deadline = now + ShutdownTimeout
          /\ (Signal /\ main.pc # "quit") => main'.pc = "exited"
          /\ main.pc = "shutdown" => now' <= main.deadline
          /\ (main.pc = "shutdown" /\ main'.pc = "exited") =>
                \/ InFlight = {} /\ main'.exit = 0
                \/ now = main.deadline /\ main'.exit = 1
          /\ main.pc # "exited"]_vars
    /\ main.signalled ~> main.pc = "exited"

\* the signal came while a request was waiting for the upstream; the
\* request was still waiting five seconds later, and the process exited
\* with the fatal status, abandoning it
C18_Witness ==
    /\ main.signalled /\ main.pc = "exited" /\ main.exit = 1
    /\ main.fatal = "Server forced to shutdown"
    /\ now = main.deadline
    /\ InFlight # {}

StartupOk(m) ==
    /\ m.okEnv = "yes" /\ m.okDuration = "yes"
    /\ m.okDecode = "yes" /\ m.okService = "yes"

StartupFailed(m) ==
    "no" \in {m.okEnv, m.okDuration, m.okDecode, m.okService}

====
